---- MODULE Spec2Model ----
(***************************************************************************)
(* BioPath: the cache-aware concurrent batch fetcher                       *)
(* (backend/app/utils/concurrent.py with its callers in the Reactome,      *)
(* Open Targets and ChEMBL clients and the plant service), the             *)
(* evidence-aggregation pipeline (backend/app/services/analysis.py), the   *)
(* pathway scoring engine (backend/app/services/scoring.py), the compound  *)
(* priority selector (app/data/plant_compounds.py) and the rate limiter of *)
(* the API clients (app/utils/rate_limiter.py).                            *)
(***************************************************************************)
EXTENDS Integers, Sequences, FiniteSets, TLC

(***************************************************************************)
(* Bounds of the model.                                                    *)
(***************************************************************************)
NumIds == 2
MaxCalls == 2
MaxWorkers == 2
MaxRuns == 2
NumThreads == 2
MaxWaits == 2
MaxClock == 6
\* One interval of the rate limiter (1 / rate), in clock ticks.
Interval == 2

Ids == 1..NumIds

\* A key that a mapping does not hold, and Python's None.
Absent == "absent"
PyNone == "None"
\* A raised exception stored in a future.
Exc == "exception"
\* Payloads: a non-empty payload, and the empty list [] (falsy, but not None).
Data == "data"
Empty == "empty"

\* The callers of fetch_concurrent; "reactome" stands for the two pathway
\* clients (Reactome and Open Targets), whose batch methods have the same code.
Clients == {"reactome", "chembl", "plant"}
\* What the upstream request of one fetch does.
Responses == {"data", "empty", "fail"}

VARIABLES
    client,        \* which caller of fetch_concurrent this behaviour is about
    cache,         \* the caller's cache namespace: id -> value or Absent
    bpc,           \* position of the batch call
    identifiers,   \* the identifiers of the current call
    cached,        \* ids that get_many returned as hits in the current call
    futures,       \* id -> state of its future in the pool
    fres,          \* id -> what the future holds once done
    collected,     \* futures that as_completed has yielded
    newly_fetched, \* fetch_concurrent's results dict
    results,       \* the mapping the batch call returned
    fetch_calls,   \* id -> number of calls of the fetch function in this call
    outcome,       \* id -> what the upstream request did in this call
    timed_out,     \* as_completed raised TimeoutError in this call
    call_no,       \* number of batch calls started
    prev,          \* the previous batch call, as it ended, and whether the
                   \* cache was changed between it and the current call
    cache_changed  \* the cache was changed since the current call ended

bvars == <<client, cache, bpc, identifiers, cached, futures, fres, collected,
           newly_fetched, results, fetch_calls, outcome, timed_out, call_no,
           prev, cache_changed>>

VARIABLES
    settings,           \* app.config.settings, fixed for a behaviour
    pcache,             \* the "compound" and "targets" cache entries
    ppc,                \* position of the running analysis
    run_no,             \* number of analyses started
    enable_predictions, \* the input's flag
    compound,           \* what _resolve_compound returned
    known_targets,
    predicted_targets,
    pathways,
    provenance,         \* the ProvenanceRecord list
    final_summary,      \* "none", "summary" or "error"
    error,              \* the exception that left analyze_ingredient
    trace               \* the collaborator calls made, in order, with their outcome

pvars == <<settings, pcache, ppc, run_no, enable_predictions, compound,
           known_targets, predicted_targets, pathways, provenance,
           final_summary, error, trace>>

VARIABLES
    scorer,         \* the ScoringEngine object: its weights
    s_measured,     \* the measured targets handed to the engine
    s_predicted,    \* the predicted interactions handed to the engine
    s_participants, \* the participants of the pathway
    s_out,          \* the latest call of a method of the engine and its result
    s_first,        \* the result of the first calculate_pathway_impact call
    s_phase         \* "new", "first" (impact calculated once), "between"
                    \* (another method called since), "again" (calculated again)

scvars == <<scorer, s_measured, s_predicted, s_participants, s_out, s_first,
            s_phase>>

\* The compound selector (app/data/plant_compounds.py) on its own.
VARIABLES
    plant_compounds, \* plant_info.compounds, the candidates handed to the selector
    sel_out          \* the latest call of a function of the selector and its result

selvars == <<plant_compounds, sel_out>>

\* The rate limiter (app/utils/rate_limiter.py) shared by the threads of a
\* client.  Times are in clock ticks.
VARIABLES
    rate,           \* self.rate: 0 (limiting off) or 1 call per Interval ticks
    last_call,      \* self.last_call
    lock,           \* self.lock: 0 when free, else the thread holding it
    clock,          \* the value time.time() returns now
    wpc,            \* per thread: where it is in wait()
    wake,           \* per thread: the clock value its time.sleep() ends at
    waits,          \* per thread: the calls of wait() it has started
    stamps,         \* history: the values assigned to last_call, in order
    returns         \* history: the clock at each return from wait(), in order

lvars == <<rate, last_call, lock, clock, wpc, wake, waits, stamps, returns>>

\* The state of the parts checked on their own.
fvars == <<scvars, selvars, lvars>>

vars == <<bvars, pvars, fvars>>

NoMap == [i \in Ids |-> Absent]
Keys(m) == {i \in Ids : m[i] # Absent}

\* Python truthiness of a cached payload: `if cached:`.
Truthy(v) == v \notin {Absent, PyNone, Empty}

(***************************************************************************)
(* CacheService                                                            *)
(***************************************************************************)
\* CacheService.get: the stored value, None when there is none.
cache_get(c, i) == IF c[i] # Absent THEN c[i] ELSE PyNone

\* CacheService.set
cache_set(c, i, v) == [c EXCEPT ![i] = v]

\* A buggy variant: a hit only when the value is truthy (`if value:`).
get_many_truthy(c, ids) == {i \in ids : Truthy(cache_get(c, i))}

\* CacheService.get_many: the identifiers whose value is not None.
get_many(c, ids) == {i \in ids : cache_get(c, i) # PyNone}

\* CacheService.set_many
set_many(c, items) == [i \in Ids |-> IF items[i] # Absent THEN items[i] ELSE c[i]]

(***************************************************************************)
(* The single-item fetch functions handed to fetch_concurrent.             *)
(* Each gives <<what the function returns, the cache after it>>.           *)
(***************************************************************************)
\* What the upstream service can answer to each caller.
ResponsesOf(cl) ==
    IF cl = "reactome" THEN {"data", "empty", "fail"}
    ELSE {"data", "fail"}

\* ReactomeClient.get_pathway_participants / DrugBankClient.get_target_pathways:
\* a truthy cached value is returned; otherwise the request is made, its result
\* is cached and returned; an exception gives [].
get_pathway_participants(c, i, r) ==
    IF Truthy(cache_get(c, i)) THEN <<cache_get(c, i), c>>
    ELSE IF r = "fail" THEN <<Empty, c>>
    ELSE LET v == IF r = "data" THEN Data ELSE Empty
         IN <<v, cache_set(c, i, v)>>

\* ChEMBLClient._get_target_info: a dict, or None on any exception; no caching.
get_target_info(c, i, r) ==
    IF r = "fail" THEN <<PyNone, c>> ELSE <<Data, c>>

\* PlantIdentificationService._analyze_single_compound: the report, or None
\* when analyze_ingredient raised.
analyze_single_compound(c, i, r) ==
    IF r = "fail" THEN <<PyNone, c>> ELSE <<Data, c>>

fetch_func(cl, c, i, r) ==
    CASE cl = "reactome" -> get_pathway_participants(c, i, r)
      [] cl = "chembl" -> get_target_info(c, i, r)
      [] OTHER -> analyze_single_compound(c, i, r)

\* Whether the caller looks its identifiers up in the cache first.
UsesCache(cl) == cl # "plant"

(***************************************************************************)
(* The batch call                                                          *)
(***************************************************************************)
BInit ==
    /\ client \in Clients
    /\ cache = NoMap
    /\ bpc = "idle"
    /\ identifiers = {}
    /\ cached = {}
    /\ futures = [i \in Ids |-> "none"]
    /\ fres = NoMap
    /\ collected = {}
    /\ newly_fetched = NoMap
    /\ results = NoMap
    /\ fetch_calls = [i \in Ids |-> 0]
    /\ outcome = [i \in Ids |-> "none"]
    /\ timed_out = FALSE
    /\ call_no = 0
    /\ prev = [ids |-> {}, results |-> NoMap, status |-> "idle",
               cached |-> {}, outcome |-> [i \in Ids |-> "none"],
               changed |-> FALSE]
    /\ cache_changed = FALSE

\* A buggy variant: every identifier is fetched, whatever the cache holds.
missing_ids_all(ids, hits) == ids

\* missing_ids = [pid for pid in pathway_ids if pid not in cached]
missing_ids(ids, hits) == ids \ hits

\* The identifiers handed to fetch_concurrent in the current call.
Submitted == {i \in Ids : futures[i] # "none"}

Between == bpc \in {"idle", "returned", "raised"}

\* get_pathway_participants_batch / get_target_pathways_batch /
\* _get_target_info_batch up to the submission of the futures, and the plant
\* service's direct call of fetch_concurrent.
BatchCall(ids) ==
    /\ Between
    /\ call_no < MaxCalls
    /\ call_no' = call_no + 1
    /\ prev' = [ids |-> identifiers, results |-> results, status |-> bpc,
                cached |-> cached, outcome |-> outcome,
                changed |-> cache_changed]
    /\ cache_changed' = FALSE
    /\ identifiers' = ids
    /\ LET hits == IF UsesCache(client) THEN get_many(cache, ids) ELSE {}
           miss == missing_ids(ids, hits)
       IN /\ cached' = hits
          /\ futures' = [i \in Ids |-> IF i \in miss THEN "pending" ELSE "none"]
          /\ IF miss = {}
             THEN /\ bpc' = "returned"
                  /\ results' = [i \in Ids |-> IF i \in hits THEN cache[i] ELSE Absent]
             ELSE /\ bpc' = "running"
                  /\ results' = NoMap
    /\ fres' = NoMap
    /\ collected' = {}
    /\ newly_fetched' = NoMap
    /\ fetch_calls' = [i \in Ids |-> 0]
    /\ outcome' = [i \in Ids |-> "none"]
    /\ timed_out' = FALSE
    /\ UNCHANGED <<pvars, fvars, client, cache>>

Running == {i \in Ids : futures[i] = "running"}

\* ThreadPoolExecutor: a submitted call starts when a worker is free.
WorkerStart(i) ==
    /\ bpc \in {"running", "unwinding"}
    /\ futures[i] = "pending"
    /\ Cardinality(Running) < MaxWorkers
    /\ futures' = [futures EXCEPT ![i] = "running"]
    /\ fetch_calls' = [fetch_calls EXCEPT ![i] = @ + 1]
    /\ UNCHANGED <<pvars, fvars, client, cache, bpc, identifiers, cached, fres, collected,
                   newly_fetched, results, outcome, timed_out, call_no, prev,
                   cache_changed>>

\* The worker runs the fetch function to its end.
WorkerFinish(i, r) ==
    /\ bpc \in {"running", "unwinding"}
    /\ futures[i] = "running"
    /\ r \in ResponsesOf(client)
    /\ LET ret == fetch_func(client, cache, i, r)
       IN /\ fres' = [fres EXCEPT ![i] = ret[1]]
          /\ cache' = ret[2]
    /\ futures' = [futures EXCEPT ![i] = "done"]
    /\ outcome' = [outcome EXCEPT ![i] = IF r = "fail" THEN "failed" ELSE "ok"]
    /\ UNCHANGED <<pvars, fvars, client, bpc, identifiers, cached, collected, newly_fetched,
                   results, fetch_calls, timed_out, call_no, prev, cache_changed>>

\* fetch_concurrent, one turn of `for future in as_completed(...)`:
\* result = future.result(); kept unless it is None or the future raised.
collect(nf, i, v) == IF v \notin {PyNone, Exc} THEN [nf EXCEPT ![i] = v] ELSE nf

Collect(i) ==
    /\ bpc = "running"
    /\ futures[i] = "done"
    /\ i \notin collected
    /\ collected' = collected \cup {i}
    /\ newly_fetched' = collect(newly_fetched, i, fres[i])
    /\ UNCHANGED <<pvars, fvars, client, cache, bpc, identifiers, cached, futures, fres,
                   results, fetch_calls, outcome, timed_out, call_no, prev,
                   cache_changed>>

\* as_completed(..., timeout=timeout) raises TimeoutError while a future is
\* unfinished; the statement is outside the try, so the error leaves the loop.
BatchTimeout ==
    /\ bpc = "running"
    /\ \E i \in Submitted : futures[i] # "done"
    /\ bpc' = "unwinding"
    /\ timed_out' = TRUE
    /\ UNCHANGED <<pvars, fvars, client, cache, identifiers, cached, futures, fres, collected,
                   newly_fetched, results, fetch_calls, outcome, call_no, prev,
                   cache_changed>>

\* What leaves fetch_concurrent once the executor's `with` block has waited
\* for its workers: the TimeoutError.
after_timeout == "raised"

\* The `with ThreadPoolExecutor` block ends: it waits for every worker.
BatchUnwound ==
    /\ bpc = "unwinding"
    /\ \A i \in Submitted : futures[i] = "done"
    /\ bpc' = after_timeout
    /\ results' = IF after_timeout = "raised" THEN NoMap
                  ELSE [i \in Ids |-> IF i \in cached THEN cache[i] ELSE newly_fetched[i]]
    /\ UNCHANGED <<pvars, fvars, client, cache, identifiers, cached, futures, fres, collected,
                   newly_fetched, fetch_calls, outcome, timed_out, call_no, prev,
                   cache_changed>>

\* results.update(cached); results.update(newly_fetched)
merge(hitmap, nf) == [i \in Ids |-> IF nf[i] # Absent THEN nf[i] ELSE hitmap[i]]

\* fetch_concurrent returns; the caller merges (and _get_target_info_batch
\* caches the newly fetched records) and returns.
BatchReturn ==
    /\ bpc = "running"
    /\ collected = Submitted
    /\ bpc' = "returned"
    /\ results' = merge([i \in Ids |-> IF i \in cached THEN cache[i] ELSE Absent],
                        newly_fetched)
    /\ cache' = IF client = "chembl" THEN set_many(cache, newly_fetched) ELSE cache
    /\ UNCHANGED <<pvars, fvars, client, identifiers, cached, futures, fres, collected,
                   newly_fetched, fetch_calls, outcome, timed_out, call_no, prev,
                   cache_changed>>

\* An entry expires (TTL) or is deleted between two calls (at most one entry
\* between two consecutive calls).
Evict(i) ==
    /\ Between
    /\ call_no < MaxCalls
    /\ ~cache_changed
    /\ cache[i] # Absent
    /\ cache' = [cache EXCEPT ![i] = Absent]
    /\ cache_changed' = TRUE
    /\ UNCHANGED <<pvars, fvars, client, bpc, identifiers, cached, futures, fres, collected,
                   newly_fetched, results, fetch_calls, outcome, timed_out,
                   call_no, prev>>

BNext ==
    \/ \E ids \in (SUBSET Ids) \ {{}} : BatchCall(ids)
    \/ \E i \in Ids : WorkerStart(i)
    \/ \E i \in Ids, r \in Responses : WorkerFinish(i, r)
    \/ \E i \in Ids : Collect(i)
    \/ BatchTimeout
    \/ BatchUnwound
    \/ BatchReturn
    \/ \E i \in Ids : Evict(i)

(***************************************************************************)
(* The evidence-aggregation pipeline: AnalysisService.analyze_ingredient   *)
(***************************************************************************)
\* Settings: the defaults of config.py, every optional source enabled, and
\* every fallback disabled.
DefaultSettings ==
    [enable_drugbank_fallback |-> TRUE, enable_pharmacophore_prediction |-> TRUE,
     enable_ml_target_prediction |-> FALSE, enable_deeplearning_prediction |-> FALSE,
     enable_docking_plugin |-> FALSE]
AllEnabled ==
    [enable_drugbank_fallback |-> TRUE, enable_pharmacophore_prediction |-> TRUE,
     enable_ml_target_prediction |-> TRUE, enable_deeplearning_prediction |-> TRUE,
     enable_docking_plugin |-> TRUE]
NoFallbacks ==
    [enable_drugbank_fallback |-> FALSE, enable_pharmacophore_prediction |-> FALSE,
     enable_ml_target_prediction |-> FALSE, enable_deeplearning_prediction |-> FALSE,
     enable_docking_plugin |-> FALSE]
SettingsProfiles == {DefaultSettings, AllEnabled, NoFallbacks}

\* CompoundIdentity: found = FALSE stands for None. pharma: the SMILES matches
\* a pattern of PHARMACOPHORE_DATABASE (and RDKit is installed).
NoCompound == [found |-> FALSE, inchikey |-> FALSE, smiles |-> FALSE, pharma |-> FALSE]
Compounds ==
    {[found |-> TRUE, inchikey |-> FALSE, smiles |-> TRUE, pharma |-> FALSE],
     [found |-> TRUE, inchikey |-> TRUE, smiles |-> FALSE, pharma |-> FALSE],
     [found |-> TRUE, inchikey |-> TRUE, smiles |-> TRUE, pharma |-> FALSE],
     [found |-> TRUE, inchikey |-> TRUE, smiles |-> TRUE, pharma |-> TRUE]}

ProvenanceRecord(service, endpoint, status, hit) ==
    [service |-> service, endpoint |-> endpoint, status |-> status, cache_hit |-> hit]

\* pchembl_value: Optional[float] = None
NonePotency == -1

\* TargetEvidence; pchembl_value in tenths, NonePotency for None.
TargetEvidence(id, pchembl, tier, predicted, source) ==
    [target_id |-> id, pchembl_value |-> pchembl, confidence_tier |-> tier,
     is_predicted |-> predicted, source |-> source]

\* ChEMBLClient.get_target_activities: every evidence has a pChEMBL value, is
\* Tier A and not predicted; the id is the UniProt accession when there is one.
ChemblOutcomes == {"error", "empty", "uniprot", "two_uniprot", "chembl_id"}
chembl_targets(o) ==
    CASE o = "uniprot" -> <<TargetEvidence("P1", 80, "A", FALSE, "ChEMBL")>>
      [] o = "two_uniprot" -> <<TargetEvidence("P1", 80, "A", FALSE, "ChEMBL"),
                                TargetEvidence("P2", 60, "A", FALSE, "ChEMBL")>>
      [] o = "chembl_id" -> <<TargetEvidence("CHEMBL1", 60, "A", FALSE, "ChEMBL")>>
      [] OTHER -> <<>>
chembl_status(o) == IF o = "error" THEN "error" ELSE "success"

\* DrugBankClient.get_drug_targets (Open Targets mechanisms of action).
DrugTargetOutcomes == {"empty", "uniprot", "ensembl"}
get_drug_targets(o) ==
    CASE o = "uniprot" -> <<TargetEvidence("P1", NonePotency, "B", FALSE, "Open Targets")>>
      [] o = "ensembl" -> <<TargetEvidence("ENSG1", NonePotency, "B", FALSE, "Open Targets")>>
      [] OTHER -> <<>>

\* PathwayMatch; impact_score and confidence_score in thousandths.
PathwayMatch(id, impact, tier, conf, by) ==
    [pathway_id |-> id, impact_score |-> impact, confidence_tier |-> tier,
     confidence_score |-> conf, by |-> by]

\* PharmacophoreAnalyzer.analyze_compound: (targets, pathways) of the matched
\* drug classes, both empty when nothing matches.
pharma_confidence == 700
analyze_compound(c) ==
    IF c.smiles /\ c.pharma
    THEN [targets |-> <<TargetEvidence("P2", NonePotency, "C", TRUE, "Pharmacophore Analysis")>>,
          pathways |-> <<PathwayMatch("R1", pharma_confidence, "C", pharma_confidence,
                                      "Pharmacophore Analysis"),
                         PathwayMatch("R2", pharma_confidence, "C", pharma_confidence,
                                      "Pharmacophore Analysis")>>]
    ELSE [targets |-> <<>>, pathways |-> <<>>]

Step(stage, result) == [stage |-> stage, result |-> result]
ResultOf(list) == IF list = <<>> THEN "empty" ELSE "ok"

PInit ==
    /\ settings \in SettingsProfiles
    /\ pcache = [compound |-> NoCompound, targets_set |-> FALSE, targets |-> <<>>]
    /\ ppc = "idle"
    /\ run_no = 0
    /\ enable_predictions = FALSE
    /\ compound = NoCompound
    /\ known_targets = <<>>
    /\ predicted_targets = <<>>
    /\ pathways = <<>>
    /\ provenance = <<>>
    /\ final_summary = "none"
    /\ error = "none"
    /\ trace = <<>>

\* analyze_ingredient is called.
Start(ep) ==
    /\ ppc \in {"idle", "done", "raised"}
    /\ run_no < MaxRuns
    /\ run_no' = run_no + 1
    /\ enable_predictions' = ep
    /\ ppc' = "resolve"
    /\ compound' = NoCompound
    /\ known_targets' = <<>>
    /\ predicted_targets' = <<>>
    /\ pathways' = <<>>
    /\ provenance' = <<>>
    /\ final_summary' = "none"
    /\ error' = "none"
    /\ trace' = <<>>
    /\ UNCHANGED <<bvars, fvars, settings, pcache>>

\* A buggy variant: only a missing compound stops the analysis.
resolution_failed_none_only(c) == ~c.found

\* if not compound or not compound.inchikey
resolution_failed(c) == ~c.found \/ ~c.inchikey

\* _resolve_compound: the cached identity, or PubChemClient.resolve_compound
\* (None with an error record on any failure), cached when there is one.
resolve_compound(pc, o) ==
    IF pc.compound.found
    THEN [compound |-> pc.compound,
          prov |-> ProvenanceRecord("PubChem", "/compound (cached)", "success", TRUE),
          cache |-> pc, step |-> Step("resolve", "hit")]
    ELSE [compound |-> o,
          prov |-> ProvenanceRecord("PubChem", "/compound/name",
                                    IF o.found THEN "success" ELSE "error", FALSE),
          cache |-> IF o.found THEN [pc EXCEPT !.compound = o] ELSE pc,
          step |-> Step("resolve", IF o.found THEN "ok" ELSE "error")]

\* Step 1, and _create_error_report when it fails.
Resolve(o) ==
    /\ ppc = "resolve"
    /\ LET r == resolve_compound(pcache, o)
       IN /\ provenance' = Append(provenance, r.prov)
          /\ pcache' = r.cache
          /\ trace' = Append(trace, r.step)
          /\ compound' = r.compound
          /\ IF resolution_failed(r.compound)
             THEN /\ ppc' = "done"
                  /\ final_summary' = "error"
             ELSE /\ ppc' = "evidence"
                  /\ final_summary' = "none"
    /\ UNCHANGED <<bvars, fvars, settings, run_no, enable_predictions, known_targets,
                   predicted_targets, pathways, error>>

\* A buggy variant: the knowledge graph's targets are never taken.
drugbank_supplied_never(t) == FALSE

\* if targets: (the primary source supplied evidence)
chembl_supplied(t) == t # <<>>
\* if drugbank_targets:
drugbank_supplied(t) == t # <<>>
\* if pharma_targets:
pharma_supplied(t) == t # <<>>

cache_targets(pc, t) == [pc EXCEPT !.targets_set = TRUE, !.targets = t]

\* _get_target_evidence: the cached evidence, else ChEMBL, else Open Targets,
\* else the pharmacophore analysis, else ChEMBL's empty list. One record is
\* returned: the record of the source whose evidence is returned.
get_target_evidence(c, pc, st, co, oo) ==
    IF pc.targets_set /\ pc.targets # <<>>
    THEN [targets |-> pc.targets,
          prov |-> ProvenanceRecord("ChEMBL", "/activity (cached)", "success", TRUE),
          cache |-> pc, steps |-> <<Step("measured", "hit")>>]
    ELSE
      LET targets == chembl_targets(co)
          prov == ProvenanceRecord("ChEMBL", "/activity", chembl_status(co), FALSE)
          s1 == <<Step("measured", IF co = "error" THEN "error" ELSE ResultOf(targets))>>
          kg_tried == targets = <<>> /\ st.enable_drugbank_fallback
          drugbank_targets == get_drug_targets(oo)
          s2 == IF kg_tried
                THEN Append(s1, Step("kg_targets", ResultOf(drugbank_targets)))
                ELSE s1
          pharma_tried == /\ targets = <<>>
                          /\ st.enable_pharmacophore_prediction
                          /\ c.smiles
          pharma_targets == analyze_compound(c).targets
          s3 == IF pharma_tried
                THEN Append(s2, Step("pattern_targets", ResultOf(pharma_targets)))
                ELSE s2
      IN IF chembl_supplied(targets)
         THEN [targets |-> targets, prov |-> prov,
               cache |-> cache_targets(pc, targets), steps |-> s1]
         ELSE IF kg_tried /\ drugbank_supplied(drugbank_targets)
         THEN [targets |-> drugbank_targets,
               prov |-> ProvenanceRecord("Open Targets",
                            "/graphql (drug targets fallback)", "success", FALSE),
               cache |-> cache_targets(pc, drugbank_targets), steps |-> s2]
         ELSE IF pharma_tried /\ pharma_supplied(pharma_targets)
         THEN [targets |-> pharma_targets,
               prov |-> ProvenanceRecord("Pharmacophore Analysis",
                            "/functional_group_analysis", "success", FALSE),
               cache |-> cache_targets(pc, pharma_targets), steps |-> s3]
         ELSE [targets |-> targets, prov |-> prov, cache |-> pc, steps |-> s3]

\* Step 2.
Evidence(co, oo) ==
    /\ ppc = "evidence"
    /\ LET r == get_target_evidence(compound, pcache, settings, co, oo)
       IN /\ known_targets' = r.targets
          /\ provenance' = Append(provenance, r.prov)
          /\ pcache' = r.cache
          /\ trace' = trace \o r.steps
    /\ ppc' = "docking"
    /\ UNCHANGED <<bvars, fvars, settings, run_no, enable_predictions, compound,
                   predicted_targets, pathways, final_summary, error>>

\* DockingPlugin.predict_targets: the plugin is a stub returning no prediction.
docking_predict_targets(c) == <<>>

\* Step 3: _predict_targets when predictions are requested and enabled.
Docking ==
    /\ ppc = "docking"
    /\ IF enable_predictions /\ settings.enable_docking_plugin
       THEN /\ predicted_targets' = docking_predict_targets(compound)
            /\ provenance' = Append(provenance,
                   ProvenanceRecord("DockingPlugin", "local_prediction", "success", FALSE))
            /\ trace' = Append(trace, Step("docking", "empty"))
       ELSE UNCHANGED <<predicted_targets, provenance, trace>>
    /\ ppc' = "deeppurpose"
    /\ UNCHANGED <<bvars, fvars, settings, pcache, run_no, enable_predictions, compound,
                   known_targets, pathways, final_summary, error>>

\* deepchem_ml_service.predict_targets: Tier C predictions without potency,
\* the empty list on any failure.
DeepPurposeOutcomes == {"unavailable", "empty", "some"}
deepchem_predict_targets(o) ==
    IF o = "some"
    THEN <<TargetEvidence("P2", NonePotency, "C", TRUE, "DeepPurpose ML")>>
    ELSE <<>>

\* Step 3b: recorded only when it predicted something.
DeepPurpose(o) ==
    /\ ppc = "deeppurpose"
    /\ IF /\ known_targets = <<>>
          /\ predicted_targets = <<>>
          /\ settings.enable_deeplearning_prediction
          /\ o # "unavailable"
       THEN LET ml_predicted_targets == deepchem_predict_targets(o)
            IN /\ known_targets' = known_targets \o ml_predicted_targets
               /\ provenance' =
                    IF ml_predicted_targets # <<>>
                    THEN Append(provenance, ProvenanceRecord("DeepPurpose",
                                    "/ml_target_prediction", "success", FALSE))
                    ELSE provenance
               /\ trace' = Append(trace, Step("deeppurpose", ResultOf(ml_predicted_targets)))
       ELSE UNCHANGED <<known_targets, provenance, trace>>
    /\ ppc' = "ml"
    /\ UNCHANGED <<bvars, fvars, settings, pcache, run_no, enable_predictions, compound,
                   predicted_targets, pathways, final_summary, error>>

\* target_prediction_service.predict_targets behind _predict_targets_ml_fallback.
MLOutcomes == {"error", "empty", "some"}
ml_predict_targets(o) ==
    IF o = "some"
    THEN <<TargetEvidence("P1", NonePotency, "C", TRUE, "ML Prediction Service")>>
    ELSE <<>>
ml_status(o) ==
    CASE o = "error" -> "error" [] o = "empty" -> "no_results" [] OTHER -> "success"

\* Step 3c: always recorded when it runs.
MLHeuristic(o) ==
    /\ ppc = "ml"
    /\ IF /\ known_targets = <<>>
          /\ predicted_targets = <<>>
          /\ settings.enable_ml_target_prediction
       THEN /\ known_targets' = known_targets \o ml_predict_targets(o)
            /\ provenance' = Append(provenance,
                   ProvenanceRecord("Open-Source ML (DeepPurpose-like)",
                                    "/target_prediction", ml_status(o), FALSE))
            /\ trace' = Append(trace, Step("ml_heuristic",
                   IF o = "error" THEN "error" ELSE ResultOf(ml_predict_targets(o))))
       ELSE UNCHANGED <<known_targets, provenance, trace>>
    /\ ppc' = "map"
    /\ UNCHANGED <<bvars, fvars, settings, pcache, run_no, enable_predictions, compound,
                   predicted_targets, pathways, final_summary, error>>

(***************************************************************************)
(* ScoringEngine; scores in thousandths, pChEMBL values in tenths           *)
(***************************************************************************)
potency_weight == 700
coverage_weight == 300

\* ScoringEngine.__init__: the weights of the settings.
ScoringEngine_init(pw, cw) == [potency_weight |-> pw, coverage_weight |-> cw]

\* PredictedInteraction; prediction_score in thousandths.
PredictedInteraction(id, score) == [target_id |-> id, prediction_score |-> score]

Clamp(x, lo, hi) == IF x < lo THEN lo ELSE IF x > hi THEN hi ELSE x

RECURSIVE SumOf(_, _)
SumOf(seq, field) ==
    IF seq = <<>> THEN 0 ELSE Head(seq)[field] + SumOf(Tail(seq), field)

\* A buggy variant: the first target's potency instead of the best one.
first_normalized(ts) ==
    IF ts = <<>> THEN 0
    ELSE IF Head(ts).pchembl_value <= 50 THEN 0
    ELSE IF Head(ts).pchembl_value >= 90 THEN 1000
    ELSE (Head(ts).pchembl_value - 50) * 25

RECURSIVE MaxNormalized(_)
MaxNormalized(ts) ==
    IF ts = <<>> THEN 0
    ELSE LET n == Clamp(((Head(ts).pchembl_value - 50) * 1000) \div 40, 0, 1000)
             m == MaxNormalized(Tail(ts))
         IN IF n > m THEN n ELSE m

\* if t.pchembl_value (None and 0.0 are falsy)
WithPotency(ts) ==
    SelectSeq(ts, LAMBDA t : t.pchembl_value # NonePotency /\ t.pchembl_value # 0)

\* if target.pchembl_value is not None
NotNonePotency(ts) == SelectSeq(ts, LAMBDA t : t.pchembl_value # NonePotency)

calculate_potency_score(ts) ==
    IF ts = <<>> THEN 0
    ELSE IF NotNonePotency(ts) = <<>> THEN 500
    ELSE MaxNormalized(NotNonePotency(ts))

calculate_prediction_score(ps) ==
    IF ps = <<>> THEN 0 ELSE SumOf(ps, "prediction_score") \div Len(ps)

\* 1000 * ln(n) for n = 1..8
LnMilli == <<0, 693, 1099, 1386, 1609, 1792, 1946, 2079>>

calculate_coverage_score(matched_count, total_count) ==
    IF total_count = 0 THEN 0
    ELSE LET cs == (LnMilli[matched_count + 1] * 1000) \div LnMilli[total_count + 1]
         IN IF cs > 1000 THEN 1000 ELSE cs

\* A buggy variant: a mean of exactly 7.0 is not high potency.
high_potency_strict(sum, n) == sum > 70 * n

\* if avg_pchembl >= 7.0
high_potency(sum, n) == sum >= 70 * n

\* Raises ZeroDivisionError when only measured targets matched and none of
\* them has a pChEMBL value.
determine_confidence(measured, predicted) ==
    IF measured # <<>> /\ predicted = <<>>
    THEN IF WithPotency(measured) = <<>>
         THEN [raised |-> "ZeroDivisionError", tier |-> "B", score |-> 0]
         ELSE IF high_potency(SumOf(WithPotency(measured), "pchembl_value"),
                              Len(WithPotency(measured)))
              THEN [raised |-> "none", tier |-> "A", score |-> 900]
              ELSE [raised |-> "none", tier |-> "B", score |-> 700]
    ELSE IF measured # <<>> /\ predicted # <<>>
    THEN [raised |-> "none", tier |-> "B", score |-> 600]
    ELSE IF predicted # <<>>
    THEN [raised |-> "none", tier |-> "C",
          score |-> (SumOf(predicted, "prediction_score") \div Len(predicted)) \div 2]
    ELSE [raised |-> "none", tier |-> "B", score |-> 500]

\* Raises IndexError when the single matched measured target has no pChEMBL
\* value (potencies[0] of an empty list).
generate_explanation_raises(measured) ==
    Len(measured) = 1 /\ WithPotency(measured) = <<>>

\* _generate_explanation: what the sentence is built from.
generate_explanation(measured, predicted, impact_score) ==
    [impact_level |-> IF impact_score >= 700 THEN "high"
                      ELSE IF impact_score >= 400 THEN "moderate" ELSE "low",
     measured_count |-> Len(measured),
     potency |-> IF Len(measured) = 1 /\ WithPotency(measured) # <<>>
                 THEN measured[1].pchembl_value ELSE NonePotency,
     predicted_count |-> Len(predicted)]

calculate_pathway_impact(self, pathway_id, measured, predicted, participants) ==
    LET matched_measured ==
            SelectSeq(measured, LAMBDA t : t.target_id \in participants)
        matched_predicted ==
            SelectSeq(predicted, LAMBDA t : t.target_id \in participants)
        potency_score == calculate_potency_score(matched_measured)
        prediction_score == calculate_prediction_score(matched_predicted)
        coverage_score == calculate_coverage_score(
            Len(matched_measured) + Len(matched_predicted), Cardinality(participants))
        impact_score == Clamp((self.potency_weight * potency_score
                               + self.coverage_weight * coverage_score
                               + (1000 - self.potency_weight - self.coverage_weight)
                                 * prediction_score
                               + 500) \div 1000, 0, 1000)
        conf == determine_confidence(matched_measured, matched_predicted)
    IN IF matched_measured = <<>> /\ matched_predicted = <<>>
       THEN [kind |-> "none"]
       ELSE IF conf.raised # "none"
       THEN [kind |-> conf.raised]
       ELSE IF generate_explanation_raises(matched_measured)
       THEN [kind |-> "IndexError"]
       ELSE [kind |-> "match",
             match |-> PathwayMatch(pathway_id, impact_score, conf.tier, conf.score,
                                    "Reactome"),
             explanation |-> generate_explanation(matched_measured, matched_predicted,
                                                  impact_score)]

(***************************************************************************)
(* Pathway stages                                                           *)
(***************************************************************************)
is_valid_uniprot_id(tid) == tid \in {"P1", "P2"}


\* ReactomeClient.map_targets_to_pathways: the pathways the analysis service
\* found for the valid UniProt ids, nothing (status "error") on a failure.
MapOutcomes == {"error", "none", "one", "two"}
pathways_found(o) ==
    CASE o = "one" -> <<"R1">> [] o = "two" -> <<"R1", "R2">> [] OTHER -> <<>>

\* get_pathway_participants_batch as _map_pathways sees it: it raises
\* TimeoutError, or returns the participants of every pathway ([] for a
\* pathway whose request failed).
ParticipantSets == {{}, {"P1", "P2"}}
ParticipantOutcomes ==
    [timeout : BOOLEAN, participants : [{"R1", "R2"} -> ParticipantSets]]

\* list.sort(key=impact_score, reverse=True): stable, descending.
RECURSIVE InsertDesc(_, _)
InsertDesc(sorted, p) ==
    IF sorted = <<>> THEN <<p>>
    ELSE IF Head(sorted).impact_score >= p.impact_score
         THEN <<Head(sorted)>> \o InsertDesc(Tail(sorted), p)
         ELSE <<p>> \o sorted
RECURSIVE SortDesc(_)
SortDesc(seq) ==
    IF seq = <<>> THEN <<>>
    ELSE InsertDesc(SortDesc(SubSeq(seq, 1, Len(seq) - 1)), seq[Len(seq)])

\* The scoring loop of _map_pathways: the matches in order, or the first
\* exception raised by the scorer.
RECURSIVE score_pathways(_, _, _, _)
score_pathways(pids, known, predicted, participants) ==
    IF pids = <<>> THEN [raised |-> "none", matches |-> <<>>]
    ELSE LET m == calculate_pathway_impact(
                      ScoringEngine_init(potency_weight, coverage_weight),
                      Head(pids), known, predicted,
                                           participants[Head(pids)])
             rest == score_pathways(Tail(pids), known, predicted, participants)
         IN IF m.kind \notin {"none", "match"}
            THEN [raised |-> m.kind, matches |-> <<>>]
            ELSE IF rest.raised # "none" THEN rest
            ELSE [raised |-> "none",
                  matches |-> (IF m.kind = "match" THEN <<m.match>> ELSE <<>>)
                              \o rest.matches]

\* pathway_map of map_targets_to_pathways as _map_pathways walks it: every
\* valid target carries every pathway found.
RECURSIVE pathway_map_items(_, _)
pathway_map_items(found, targets) ==
    IF targets = 0 THEN <<>> ELSE found \o pathway_map_items(found, targets - 1)

\* A buggy variant: a pathway is taken once per target that carries it.
pathway_dict_all(items) == items

\* pathway_dict of _map_pathways: the pathway ids in the order of their
\* first occurrence, each once.
RECURSIVE pathway_dict(_)
pathway_dict(items) ==
    IF items = <<>> THEN <<>>
    ELSE LET before == pathway_dict(SubSeq(items, 1, Len(items) - 1))
             pid == items[Len(items)]
         IN IF \E k \in DOMAIN before : before[k] = pid
            THEN before ELSE Append(before, pid)

map_pathways(known, predicted, mo, po) ==
    LET target_ids == {known[i].target_id : i \in DOMAIN known}
                      \cup {predicted[i].target_id : i \in DOMAIN predicted}
        valid_ids == {t \in target_ids : is_valid_uniprot_id(t)}
        status == IF valid_ids # {} /\ mo = "error" THEN "error" ELSE "success"
        pathway_ids == pathway_dict(pathway_map_items(pathways_found(mo),
                                                      Cardinality(valid_ids)))
        scored == score_pathways(pathway_ids, known, predicted, po.participants)
    IN IF target_ids = {}
       THEN [raised |-> "none", pathways |-> <<>>, status |-> "success",
             prov |-> ProvenanceRecord("Reactome", "/data/mapping (skipped)",
                                       "success", FALSE)]
       ELSE IF pathway_ids # <<>> /\ po.timeout
       THEN [raised |-> "TimeoutError", pathways |-> <<>>, status |-> status,
             prov |-> ProvenanceRecord("Reactome", "/data/mapping/projection",
                                       status, FALSE)]
       ELSE [raised |-> scored.raised, pathways |-> SortDesc(scored.matches),
             status |-> status,
             prov |-> ProvenanceRecord("Reactome", "/data/mapping/projection",
                                       status, FALSE)]

\* Step 4: only when there is a target. An exception of the batch fetcher or
\* of the scorer leaves analyze_ingredient.
MapPathways(mo, po) ==
    /\ ppc = "map"
    /\ IF known_targets \o predicted_targets # <<>>
       THEN LET r == map_pathways(known_targets, predicted_targets, mo, po)
            IN IF r.raised # "none"
               THEN /\ ppc' = "raised"
                    /\ error' = r.raised
                    /\ trace' = Append(trace, Step("pathway_mapping", "raised"))
                    /\ UNCHANGED <<pathways, provenance>>
               ELSE /\ ppc' = "kg_pathways"
                    /\ pathways' = r.pathways
                    /\ provenance' = Append(provenance, r.prov)
                    /\ trace' = Append(trace, Step("pathway_mapping",
                           IF r.status = "error" THEN "error" ELSE ResultOf(r.pathways)))
                    /\ UNCHANGED error
       ELSE /\ ppc' = "kg_pathways"
            /\ UNCHANGED <<pathways, provenance, trace, error>>
    /\ UNCHANGED <<bvars, fvars, settings, pcache, run_no, enable_predictions, compound,
                   known_targets, predicted_targets, final_summary>>

\* DrugBankClient.get_pathways_for_drug: Tier B pathways with a fixed score,
\* the empty list on any failure.
kg_pathway_score == 700
KgPathwayOutcomes == {"error", "empty", "some"}
get_pathways_for_drug(o) ==
    IF o = "some"
    THEN <<PathwayMatch("R2", kg_pathway_score, "B", kg_pathway_score, "Open Targets")>>
    ELSE <<>>

\* A buggy variant: the lookup does not look at the pathways found so far.
kg_fallback_always(found, st) == st.enable_drugbank_fallback

\* if not pathways and settings.enable_drugbank_fallback
kg_fallback_due(found, st) == found = <<>> /\ st.enable_drugbank_fallback

\* Step 4b: recorded only when it found pathways.
PathwayFallback1(o) ==
    /\ ppc = "kg_pathways"
    /\ IF kg_fallback_due(pathways, settings)
       THEN LET drugbank_pathways == get_pathways_for_drug(o)
            IN /\ pathways' = IF drugbank_pathways # <<>>
                              THEN drugbank_pathways ELSE pathways
               /\ provenance' =
                    IF drugbank_pathways # <<>>
                    THEN Append(provenance, ProvenanceRecord("Open Targets",
                                    "/graphql (fallback)", "success", FALSE))
                    ELSE provenance
               /\ trace' = Append(trace, Step("kg_pathways",
                      IF o = "error" THEN "error" ELSE ResultOf(drugbank_pathways)))
       ELSE UNCHANGED <<pathways, provenance, trace>>
    /\ ppc' = "pattern_pathways"
    /\ UNCHANGED <<bvars, fvars, settings, pcache, run_no, enable_predictions, compound,
                   known_targets, predicted_targets, final_summary, error>>

\* Step 4b2: recorded only when it found pathways.
PathwayFallback2 ==
    /\ ppc = "pattern_pathways"
    /\ IF /\ pathways = <<>>
          /\ settings.enable_pharmacophore_prediction
          /\ compound.found
          /\ compound.smiles
       THEN LET pharma_pathways == analyze_compound(compound).pathways
            IN /\ pathways' = IF pharma_pathways # <<>>
                              THEN pharma_pathways ELSE pathways
               /\ provenance' =
                    IF pharma_pathways # <<>>
                    THEN Append(provenance, ProvenanceRecord("Pharmacophore Analysis",
                                    "/functional_group_analysis", "success", FALSE))
                    ELSE provenance
               /\ trace' = Append(trace, Step("pattern_pathways",
                                              ResultOf(pharma_pathways)))
       ELSE UNCHANGED <<pathways, provenance, trace>>
    /\ ppc' = "indications"
    /\ UNCHANGED <<bvars, fvars, settings, pcache, run_no, enable_predictions, compound,
                   known_targets, predicted_targets, final_summary, error>>

\* ChEMBLClient.infer_pathways_from_indications: Tier B pathways scored by
\* the clinical phase, the empty list on any failure.
approved_confidence == 950
early_phase_confidence == 800
IndicationOutcomes == {"error", "empty", "one", "two"}
infer_pathways_from_indications(o) ==
    CASE o = "one" ->
           <<PathwayMatch("R1", approved_confidence, "B", approved_confidence,
                          "ChEMBL Indications")>>
      [] o = "two" ->
           <<PathwayMatch("R1", early_phase_confidence, "B", early_phase_confidence,
                          "ChEMBL Indications"),
             PathwayMatch("R3", early_phase_confidence, "B", early_phase_confidence,
                          "ChEMBL Indications")>>
      [] OTHER -> <<>>

\* A buggy variant: every inferred pathway is appended.
new_pathways_all(existing, inferred) == inferred

\* The pathways whose id is not yet in the list.
new_pathways(existing, inferred) ==
    SelectSeq(inferred, LAMBDA p :
        p.pathway_id \notin {existing[i].pathway_id : i \in DOMAIN existing})

\* Step 4c: recorded only when it added a pathway.
Indication(o) ==
    /\ ppc = "indications"
    /\ IF compound.found /\ compound.inchikey
       THEN LET added == new_pathways(pathways, infer_pathways_from_indications(o))
            IN /\ pathways' = pathways \o added
               /\ provenance' =
                    IF added # <<>>
                    THEN Append(provenance, ProvenanceRecord("ChEMBL Indications",
                                    "/drug_indication (inference)", "success", FALSE))
                    ELSE provenance
               /\ trace' = Append(trace, Step("indications",
                      IF o = "error" THEN "error"
                      ELSE ResultOf(infer_pathways_from_indications(o))))
       ELSE UNCHANGED <<pathways, provenance, trace>>
    /\ ppc' = "summary"
    /\ UNCHANGED <<bvars, fvars, settings, pcache, run_no, enable_predictions, compound,
                   known_targets, predicted_targets, final_summary, error>>

\* Step 5: _generate_summary and the report.
Finish ==
    /\ ppc = "summary"
    /\ final_summary' = "summary"
    /\ ppc' = "done"
    /\ UNCHANGED <<bvars, fvars, settings, pcache, run_no, enable_predictions, compound,
                   known_targets, predicted_targets, pathways, provenance,
                   error, trace>>

PNext ==
    \/ \E ep \in BOOLEAN : Start(ep)
    \/ \E o \in Compounds \cup {NoCompound} : Resolve(o)
    \/ \E co \in ChemblOutcomes, oo \in DrugTargetOutcomes : Evidence(co, oo)
    \/ Docking
    \/ \E o \in DeepPurposeOutcomes : DeepPurpose(o)
    \/ \E o \in MLOutcomes : MLHeuristic(o)
    \/ \E mo \in MapOutcomes, po \in ParticipantOutcomes : MapPathways(mo, po)
    \/ \E o \in KgPathwayOutcomes : PathwayFallback1(o)
    \/ PathwayFallback2
    \/ \E o \in IndicationOutcomes : Indication(o)
    \/ Finish

\* The batch fetcher alone, and the pipeline alone.
BatchIdle ==
    /\ client = "reactome"
    /\ cache = NoMap
    /\ bpc = "idle"
    /\ identifiers = {}
    /\ cached = {}
    /\ futures = [i \in Ids |-> "none"]
    /\ fres = NoMap
    /\ collected = {}
    /\ newly_fetched = NoMap
    /\ results = NoMap
    /\ fetch_calls = [i \in Ids |-> 0]
    /\ outcome = [i \in Ids |-> "none"]
    /\ timed_out = FALSE
    /\ call_no = 0
    /\ prev = [ids |-> {}, results |-> NoMap, status |-> "idle", cached |-> {},
               outcome |-> [i \in Ids |-> "none"], changed |-> FALSE]
    /\ cache_changed = FALSE

PipeIdle ==
    /\ settings = DefaultSettings
    /\ pcache = [compound |-> NoCompound, targets_set |-> FALSE, targets |-> <<>>]
    /\ ppc = "idle"
    /\ run_no = 0
    /\ enable_predictions = FALSE
    /\ compound = NoCompound
    /\ known_targets = <<>>
    /\ predicted_targets = <<>>
    /\ pathways = <<>>
    /\ provenance = <<>>
    /\ final_summary = "none"
    /\ error = "none"
    /\ trace = <<>>

(***************************************************************************)
(* The scoring engine on its own: an engine is built, and its methods are   *)
(* called on given evidence.                                                *)
(***************************************************************************)
MaxMeasured == 2
MaxPredicted == 1

SeqsUpTo(S, n) == UNION {[1..k -> S] : k \in 0..n}

Measured(id, pchembl) == TargetEvidence(id, pchembl, "A", FALSE, "ChEMBL")
MeasuredPool ==
    {Measured("P1", NonePotency), Measured("P1", 0), Measured("P1", 70),
     Measured("P1", 80), Measured("P2", 30), Measured("P2", 60),
     Measured("P2", 90), Measured("P3", 80)}
PredictedPool == {PredictedInteraction("P2", 400), PredictedInteraction("P4", 1000)}
ParticipantPool == {{}, {"P1", "P2", "P4"}, {"P1", "P2", "P4", "P5", "P6"}}
WeightProfiles ==
    {ScoringEngine_init(potency_weight, coverage_weight),
     ScoringEngine_init(500, 300), ScoringEngine_init(800, 400)}

Unset == [kind |-> "unset"]

ScoreInit ==
    /\ scorer \in WeightProfiles
    /\ s_measured \in SeqsUpTo(MeasuredPool, MaxMeasured)
    /\ s_predicted \in SeqsUpTo(PredictedPool, MaxPredicted)
    /\ s_participants \in ParticipantPool
    /\ s_out = [method |-> "none", result |-> Unset]
    /\ s_first = Unset
    /\ s_phase = "new"

ScoreIdle ==
    /\ scorer = ScoringEngine_init(potency_weight, coverage_weight)
    /\ s_measured = <<>>
    /\ s_predicted = <<>>
    /\ s_participants = {}
    /\ s_out = [method |-> "none", result |-> Unset]
    /\ s_first = Unset
    /\ s_phase = "new"

\* A buggy variant: a call moves weight from potency to coverage.
scorer_drifts(self) ==
    [self EXCEPT !.potency_weight = self.coverage_weight,
                 !.coverage_weight = self.potency_weight]

\* The engine after a call of one of its methods: no method assigns to self.
scorer_after_call(self) == self

\* scorer.calculate_pathway_impact(...)
CallImpact ==
    /\ LET r == calculate_pathway_impact(scorer, "R1", s_measured, s_predicted,
                                         s_participants)
       IN /\ s_out' = [method |-> "calculate_pathway_impact", result |-> r]
          /\ s_first' = IF s_first = Unset THEN r ELSE s_first
    /\ s_phase' = CASE s_phase = "new" -> "first"
                    [] s_phase = "between" -> "again"
                    [] OTHER -> s_phase
    /\ scorer' = scorer_after_call(scorer)
    /\ UNCHANGED <<bvars, pvars, selvars, lvars, s_measured, s_predicted, s_participants>>

\* scorer._calculate_potency_score(targets)
CallPotency ==
    /\ s_out' = [method |-> "_calculate_potency_score",
                 result |-> [kind |-> "value",
                             value |-> calculate_potency_score(s_measured)]]
    /\ scorer' = scorer_after_call(scorer)
    /\ s_phase' = IF s_phase = "first" THEN "between" ELSE s_phase
    /\ UNCHANGED <<bvars, pvars, selvars, lvars, s_measured, s_predicted, s_participants,
                   s_first>>

\* scorer._determine_confidence(measured, predicted)
CallConfidence ==
    /\ s_out' = [method |-> "_determine_confidence",
                 result |-> determine_confidence(s_measured, s_predicted)]
    /\ scorer' = scorer_after_call(scorer)
    /\ s_phase' = IF s_phase = "first" THEN "between" ELSE s_phase
    /\ UNCHANGED <<bvars, pvars, selvars, lvars, s_measured, s_predicted, s_participants,
                   s_first>>

SNext == CallImpact \/ CallPotency \/ CallConfidence

(***************************************************************************)
(* The compound priority selector: calculate_compound_priority and          *)
(* get_prioritized_compounds of app/data/plant_compounds.py.                 *)
(* The four axes and the priority scores are in thousandths, the            *)
(* unrounded priority in ten-thousandths.                                   *)
(***************************************************************************)
MaxCompounds == 5

\* CompoundMetadata; chembl_id as "is there one", lifestyle_categories as
\* the length of the list.
CompoundMetadata(name, chembl, research, bioactivity, interaction, health, tags) ==
    [name |-> name, chembl_id |-> chembl, research_level |-> research,
     bioactivity_strength |-> bioactivity, drug_interaction_risk |-> interaction,
     health_impact_potential |-> health, lifestyle_categories |-> tags]

\* The compounds of the model's plants. "baseline" has the default axes of
\* CompoundMetadata; "fine" has an axis with three decimals, and the exact
\* priority of "tie_up" and "tie_down" ends in 5 ten-thousandths.
Catalogue ==
    <<CompoundMetadata("baseline", FALSE, 300, 300, 200, 300, 0),
      CompoundMetadata("lead", TRUE, 1000, 1000, 1000, 500, 0),
      CompoundMetadata("mid560", TRUE, 600, 400, 500, 500, 0),
      CompoundMetadata("tagged", FALSE, 300, 300, 200, 300, 5),
      CompoundMetadata("mid600", TRUE, 600, 500, 500, 500, 2),
      CompoundMetadata("second", TRUE, 1000, 1000, 500, 500, 7),
      CompoundMetadata("mid540", TRUE, 600, 400, 400, 500, 0),
      CompoundMetadata("plain400", FALSE, 400, 400, 400, 400, 4),
      CompoundMetadata("mid580", TRUE, 600, 500, 500, 500, 0),
      CompoundMetadata("mid550", TRUE, 500, 500, 500, 500, 0),
      CompoundMetadata("potent550", TRUE, 300, 800, 500, 500, 0),
      CompoundMetadata("maximal", TRUE, 1000, 1000, 1000, 1000, 5),
      CompoundMetadata("fine", FALSE, 333, 0, 0, 0, 0),
      CompoundMetadata("tie_up", FALSE, 335, 0, 0, 0, 0),
      CompoundMetadata("tie_down", FALSE, 345, 0, 0, 0, 0)>>

\* round(x, 3) of the double sum whose exact value ends in 5
\* ten-thousandths: the double of "tie_up" lies above the tie (0.1005 gives
\* 0.101), that of "tie_down" below it (0.1035 gives 0.103).
DoubleAboveTie == {"tie_up"}

\* round(x, 3): x in ten-thousandths, the result in thousandths.
round3(x, above_tie) ==
    IF x % 10 = 5
    THEN x \div 10 + (IF above_tie THEN 1 ELSE 0)
    ELSE (x + 5) \div 10

\* A buggy variant: research_level weighs 0.20.
weighted_axes_flat(cm) ==
    cm.research_level * 2 + cm.bioactivity_strength * 2
    + cm.drug_interaction_risk * 2 + cm.health_impact_potential * 2

\* research*0.30 + bioactivity*0.20 + interaction*0.20 + health*0.20
weighted_axes(cm) ==
    cm.research_level * 3 + cm.bioactivity_strength * 2
    + cm.drug_interaction_risk * 2 + cm.health_impact_potential * 2

calculate_compound_priority(cm) ==
    LET chembl_bonus == IF cm.chembl_id THEN 1000 ELSE 0
        \* min(len(lifestyle_categories) / 5, 1.0) * 0.05
        lifestyle_bonus ==
            IF cm.lifestyle_categories >= 5 THEN 500
            ELSE cm.lifestyle_categories * 100
        priority == weighted_axes(cm) + chembl_bonus + lifestyle_bonus
    IN round3(IF priority < 10000 THEN priority ELSE 10000,
              cm.name \in DoubleAboveTie)

\* The double a/1000 - b/1000 minus the double nearest (a-b)/1000, in units
\* of 2^-62, for the scores of the catalogue and for b = 150 (the 0.15 of
\* the threshold); pairs that are not listed give 0.
FloatDevTable ==
    <<101, 100>> :> 4 @@ <<103, 100>> :> -52 @@ <<103, 101>> :> -56 @@
    <<250, 103>> :> 128 @@ <<300, 100>> :> -128 @@ <<300, 101>> :> -128 @@
    <<300, 250>> :> -64 @@ <<400, 100>> :> 256 @@ <<400, 101>> :> 256 @@
    <<400, 103>> :> 256 @@ <<400, 250>> :> 128 @@ <<400, 300>> :> 128 @@
    <<540, 100>> :> 256 @@ <<540, 101>> :> 256 @@ <<540, 103>> :> 256 @@
    <<540, 250>> :> 256 @@ <<540, 300>> :> 256 @@ <<550, 100>> :> 256 @@
    <<550, 101>> :> 256 @@ <<550, 103>> :> 256 @@ <<550, 250>> :> 256 @@
    <<550, 300>> :> 256 @@ <<550, 400>> :> 128 @@ <<550, 540>> :> 40 @@
    <<560, 100>> :> 256 @@ <<560, 101>> :> 256 @@ <<560, 103>> :> 256 @@
    <<560, 150>> :> 256 @@ <<560, 250>> :> 256 @@ <<560, 300>> :> 256 @@
    <<560, 400>> :> 128 @@ <<560, 540>> :> 80 @@ <<560, 550>> :> 40 @@
    <<580, 150>> :> -256 @@ <<580, 250>> :> -256 @@ <<580, 300>> :> -256 @@
    <<580, 400>> :> -256 @@ <<580, 540>> :> -352 @@ <<580, 550>> :> -384 @@
    <<580, 560>> :> -432 @@ <<600, 150>> :> -256 @@ <<600, 400>> :> -256 @@
    <<600, 540>> :> -256 @@ <<600, 550>> :> -320 @@ <<600, 560>> :> -352 @@
    <<600, 580>> :> 80 @@ <<850, 400>> :> -256 @@ <<850, 540>> :> -256 @@
    <<850, 550>> :> -256 @@ <<850, 560>> :> -256 @@ <<900, 300>> :> 512 @@
    <<900, 560>> :> -256 @@ <<900, 580>> :> 256 @@ <<900, 600>> :> 256 @@
    <<900, 850>> :> 192 @@ <<1000, 540>> :> -256 @@ <<1000, 550>> :> -256 @@
    <<1000, 560>> :> -256 @@ <<1000, 580>> :> 256 @@ <<1000, 850>> :> 128 @@
    <<1000, 900>> :> -128

FloatDev(a, b) ==
    IF <<a, b>> \in DOMAIN FloatDevTable THEN FloatDevTable[<<a, b>>] ELSE 0

\* The double scores[i] - scores[i + 1]: its decimal value and what the
\* double differs from it.
Gap(a, b) == [milli |-> a - b, dev |-> FloatDev(a, b)]

\* g > h on doubles.
GapGreater(g, h) ==
    g.milli > h.milli \/ (g.milli = h.milli /\ g.dev > h.dev)

\* max_gap > 0.1
is_meaningful_gap(max_gap) == GapGreater(max_gap, [milli |-> 100, dev |-> 0])

\* score >= scores[0] - 0.15
within_threshold(score, top) ==
    score > top - 150 \/ (score = top - 150 /\ FloatDev(top, 150) <= 0)

\* scored_compounds.sort(key=score, reverse=True): stable, descending.
RECURSIVE InsertScored(_, _)
InsertScored(sorted, p) ==
    IF sorted = <<>> THEN <<p>>
    ELSE IF Head(sorted).score >= p.score
         THEN <<Head(sorted)>> \o InsertScored(Tail(sorted), p)
         ELSE <<p>> \o sorted
RECURSIVE SortScored(_)
SortScored(seq) ==
    IF seq = <<>> THEN <<>>
    ELSE InsertScored(SortScored(SubSeq(seq, 1, Len(seq) - 1)), seq[Len(seq)])

\* The loop over range(len(scores) - 1) from index i on (1-based here).
RECURSIVE largest_gap(_, _, _)
largest_gap(scores, i, best) ==
    IF i > Len(scores) - 1 THEN best
    ELSE LET gap == Gap(scores[i], scores[i + 1])
         IN largest_gap(scores, i + 1,
                IF GapGreater(gap, best.max_gap)
                THEN [max_gap |-> gap, max_gap_index |-> i - 1]
                ELSE best)

\* A buggy variant: the cut falls one candidate early.
gap_cutoff_early(max_gap_index) == max_gap_index

\* cutoff_index = max_gap_index + 1
gap_cutoff(max_gap_index) == max_gap_index + 1

get_prioritized_compounds(compounds) ==
    LET scored_compounds ==
            SortScored([i \in DOMAIN compounds |->
                [compound |-> compounds[i],
                 score |-> calculate_compound_priority(compounds[i])]])
        scores == [i \in DOMAIN scored_compounds |-> scored_compounds[i].score]
        found == largest_gap(scores, 1,
                     [max_gap |-> [milli |-> 0, dev |-> 0], max_gap_index |-> 0])
        counted == Cardinality({i \in DOMAIN scores :
                                   within_threshold(scores[i], scores[1])})
        cutoff_index ==
            IF is_meaningful_gap(found.max_gap)
            THEN gap_cutoff(found.max_gap_index)
            ELSE IF counted > 1 THEN counted ELSE 1
    IN IF Len(scored_compounds) <= 1
       THEN [i \in DOMAIN scored_compounds |-> scored_compounds[i].compound]
       ELSE [i \in 1..cutoff_index |-> scored_compounds[i].compound]

\* The loop of analyze_compound_selection over the gaps: gap_size is
\* round(gap, 3), the decimal difference; next(...) takes the first gap whose
\* gap_size is the largest.
RECURSIVE first_largest_gap(_, _, _)
first_largest_gap(scores, i, best) ==
    IF i > Len(scores) - 1 THEN best
    ELSE first_largest_gap(scores, i + 1,
             IF scores[i] - scores[i + 1] > best.max_gap
             THEN [max_gap |-> scores[i] - scores[i + 1], max_gap_index |-> i - 1]
             ELSE best)

\* analyze_compound_selection: selected_compounds, or the IndexError of
\* scores[0] for a plant without compounds.
analyze_compound_selection(compounds) ==
    LET scored_compounds ==
            SortScored([i \in DOMAIN compounds |->
                [compound |-> compounds[i],
                 score |-> calculate_compound_priority(compounds[i])]])
        scores == [i \in DOMAIN scored_compounds |-> scored_compounds[i].score]
        found == first_largest_gap(scores, 1, [max_gap |-> 0, max_gap_index |-> 0])
        counted == Cardinality({i \in DOMAIN scores :
                                   within_threshold(scores[i], scores[1])})
        cutoff_index ==
            IF found.max_gap > 100
            THEN found.max_gap_index + 1
            ELSE IF counted > 1 THEN counted ELSE 1
    IN IF found.max_gap <= 100 /\ scores = <<>>
       THEN [raised |-> "IndexError", selected_names |-> <<>>]
       ELSE [raised |-> "none",
             selected_names |-> [i \in 1..cutoff_index |->
                                    scored_compounds[i].compound.name]]

\* The plants of the model: up to MaxCompounds compounds of the catalogue, in
\* the order of the catalogue or in the reverse order.
Pick(S) == SelectSeq([i \in DOMAIN Catalogue |-> i], LAMBDA i : i \in S)
Reverse(seq) == [i \in DOMAIN seq |-> seq[Len(seq) + 1 - i]]
Plants ==
    UNION {{[k \in DOMAIN Pick(S) |-> Catalogue[Pick(S)[k]]],
            [k \in DOMAIN Pick(S) |-> Catalogue[Reverse(Pick(S))[k]]]} :
           S \in {T \in SUBSET DOMAIN Catalogue : Cardinality(T) <= MaxCompounds}}

NotCalled ==
    [method |-> "none", arg |-> 0, selected |-> <<>>, priority |-> -1,
     raised |-> "none"]

SelectInit ==
    /\ plant_compounds \in Plants
    /\ sel_out = NotCalled

SelectIdle ==
    /\ plant_compounds = <<>>
    /\ sel_out = NotCalled

\* get_prioritized_compounds(plant_info)
CallSelect ==
    /\ sel_out' = [method |-> "get_prioritized_compounds", arg |-> 0,
                   selected |-> get_prioritized_compounds(plant_compounds),
                   priority |-> -1, raised |-> "none"]
    /\ UNCHANGED <<bvars, pvars, scvars, lvars, plant_compounds>>

\* calculate_compound_priority(compound) for a compound of the plant
CallPriority(i) ==
    /\ i \in DOMAIN plant_compounds
    /\ sel_out' = [method |-> "calculate_compound_priority", arg |-> i,
                   selected |-> <<>>,
                   priority |-> calculate_compound_priority(plant_compounds[i]),
                   raised |-> "none"]
    /\ UNCHANGED <<bvars, pvars, scvars, lvars, plant_compounds>>

\* analyze_compound_selection(plant_info)
CallAnalyzeSelection ==
    /\ LET r == analyze_compound_selection(plant_compounds)
       IN sel_out' = [method |-> "analyze_compound_selection", arg |-> 0,
                      selected |-> r.selected_names, priority |-> -1,
                      raised |-> r.raised]
    /\ UNCHANGED <<bvars, pvars, scvars, lvars, plant_compounds>>

SelNext ==
    \/ CallSelect
    \/ CallAnalyzeSelection
    \/ \E i \in 1..(MaxCompounds + 1) : CallPriority(i)

(***************************************************************************)
(* The rate limiter: RateLimiter.wait() called by the threads of a client  *)
(***************************************************************************)
Threads == 1..NumThreads

\* self.interval = 1.0 / rate if rate > 0 else 0
interval(r) == IF r > 0 THEN Interval ELSE 0

\* A limiter without mutual exclusion, as wait_async is.
may_acquire_always(holder) == TRUE

\* `with self.lock:` lets a thread in only while no thread holds the lock.
may_acquire(holder) == holder = 0

LimiterIdle ==
    /\ rate = 0
    /\ last_call = 0
    /\ lock = 0
    /\ clock = 0
    /\ wpc = [t \in Threads |-> "idle"]
    /\ wake = [t \in Threads |-> 0]
    /\ waits = [t \in Threads |-> 0]
    /\ stamps = <<>>
    /\ returns = <<>>

\* RateLimiter(rate): last_call is 0.0, and the clock is the time since the
\* epoch, at least one interval past it.
LimiterInit ==
    /\ rate \in {0, 1}
    /\ last_call = 0
    /\ lock = 0
    /\ clock = Interval
    /\ wpc = [t \in Threads |-> "idle"]
    /\ wake = [t \in Threads |-> 0]
    /\ waits = [t \in Threads |-> 0]
    /\ stamps = <<>>
    /\ returns = <<>>

\* Time passes.
Tick ==
    /\ clock < MaxClock
    /\ clock' = clock + 1
    /\ UNCHANGED <<bvars, pvars, scvars, selvars, rate, last_call, lock, wpc,
                   wake, waits, stamps, returns>>

\* wait(): `if self.rate <= 0: return`, else go for the lock
WaitCall(t) ==
    /\ wpc[t] = "idle"
    /\ waits[t] < MaxWaits
    /\ waits' = [waits EXCEPT ![t] = @ + 1]
    /\ wpc' = [wpc EXCEPT ![t] = IF rate <= 0 THEN "return" ELSE "acquire"]
    /\ UNCHANGED <<bvars, pvars, scvars, selvars, rate, last_call, lock, clock,
                   wake, stamps, returns>>

\* `with self.lock:` entered
WaitAcquire(t) ==
    /\ wpc[t] = "acquire"
    /\ may_acquire(lock)
    /\ lock' = t
    /\ wpc' = [wpc EXCEPT ![t] = "locked"]
    /\ UNCHANGED <<bvars, pvars, scvars, selvars, rate, last_call, clock, wake,
                   waits, stamps, returns>>

\* now = time.time(); time_since_last = now - self.last_call; when it is
\* below the interval, time.sleep(self.interval - time_since_last) starts
WaitRead(t) ==
    /\ wpc[t] = "locked"
    /\ LET now == clock
           time_since_last == now - last_call
       IN IF time_since_last < interval(rate)
          THEN /\ wake' = [wake EXCEPT ![t] = clock + (interval(rate) - time_since_last)]
               /\ wpc' = [wpc EXCEPT ![t] = "sleeping"]
          ELSE /\ wpc' = [wpc EXCEPT ![t] = "stamp"]
               /\ UNCHANGED wake
    /\ UNCHANGED <<bvars, pvars, scvars, selvars, rate, last_call, lock, clock,
                   waits, stamps, returns>>

\* time.sleep() returns, no earlier than asked
WaitWake(t) ==
    /\ wpc[t] = "sleeping"
    /\ clock >= wake[t]
    /\ wpc' = [wpc EXCEPT ![t] = "stamp"]
    /\ UNCHANGED <<bvars, pvars, scvars, selvars, rate, last_call, lock, clock,
                   wake, waits, stamps, returns>>

\* self.last_call = time.time()
WaitStamp(t) ==
    /\ wpc[t] = "stamp"
    /\ last_call' = clock
    /\ stamps' = Append(stamps, clock)
    /\ wpc' = [wpc EXCEPT ![t] = "release"]
    /\ UNCHANGED <<bvars, pvars, scvars, selvars, rate, lock, clock, wake,
                   waits, returns>>

\* the `with` block is left: the lock is released
WaitRelease(t) ==
    /\ wpc[t] = "release"
    /\ lock' = 0
    /\ wpc' = [wpc EXCEPT ![t] = "return"]
    /\ UNCHANGED <<bvars, pvars, scvars, selvars, rate, last_call, clock, wake,
                   waits, stamps, returns>>

\* wait() returns to its caller
WaitReturn(t) ==
    /\ wpc[t] = "return"
    /\ returns' = Append(returns, clock)
    /\ wpc' = [wpc EXCEPT ![t] = "idle"]
    /\ UNCHANGED <<bvars, pvars, scvars, selvars, rate, last_call, lock, clock,
                   wake, waits, stamps>>

LNext ==
    \/ Tick
    \/ \E t \in Threads : WaitCall(t)
    \/ \E t \in Threads : WaitAcquire(t)
    \/ \E t \in Threads : WaitRead(t)
    \/ \E t \in Threads : WaitWake(t)
    \/ \E t \in Threads : WaitStamp(t)
    \/ \E t \in Threads : WaitRelease(t)
    \/ \E t \in Threads : WaitReturn(t)

FunIdle == ScoreIdle /\ SelectIdle /\ LimiterIdle

BatchInit == BInit /\ PipeIdle /\ FunIdle
PipeInit == PInit /\ BatchIdle /\ FunIdle
ScoreOnlyInit == ScoreInit /\ BatchIdle /\ PipeIdle /\ SelectIdle /\ LimiterIdle
SelectOnlyInit == SelectInit /\ BatchIdle /\ PipeIdle /\ ScoreIdle /\ LimiterIdle
LimiterOnlyInit == LimiterInit /\ BatchIdle /\ PipeIdle /\ ScoreIdle /\ SelectIdle

SpecBatch == BatchInit /\ [][BNext]_vars
SpecPipe == PipeInit /\ [][PNext]_vars
SpecScore == ScoreOnlyInit /\ [][SNext]_vars
SpecSelect == SelectOnlyInit /\ [][SelNext]_vars
SpecLimiter == LimiterOnlyInit /\ [][LNext]_vars

(***************************************************************************)
(* Claims about the batch fetcher                                          *)
(***************************************************************************)
Failed == {i \in identifiers : outcome[i] = "failed"}
\* Identifiers answered by the cache or by an upstream request that succeeded.
Obtained == {i \in identifiers : i \in cached \/ outcome[i] = "ok"}

\* C4: in a batch call over N identifiers that ran to its end without a
\* timeout, if the fetch failed for exactly one identifier and a result was
\* obtained for the N-1 others, the call returns and its mapping has exactly
\* N-1 entries.
C4_PartialFailureContainment ==
    (/\ bpc \in {"returned", "raised"}
     /\ ~timed_out
     /\ Cardinality(Failed) = 1
     /\ Obtained = identifiers \ Failed)
    => (/\ bpc = "returned"
        /\ Cardinality(Keys(results)) = Cardinality(identifiers) - 1)

\* The second of two consecutive calls of a cache-aware batch fetcher with the
\* same identifiers, the first having returned and the cache not having been
\* changed in between.
SecondCall ==
    /\ UsesCache(client)
    /\ call_no >= 2
    /\ prev.status = "returned"
    /\ prev.ids = identifiers
    /\ ~prev.changed

PrevObtained == {i \in prev.ids : i \in prev.cached \/ prev.outcome[i] = "ok"}

\* C5 (as written): the second call answers entirely from cache, with zero
\* calls of the fetch function, and returns a mapping equal to the first.
C5_CacheIdempotence_Original ==
    (SecondCall /\ bpc = "returned")
    => (/\ \A i \in Ids : fetch_calls[i] = 0
        /\ results = prev.results)

\* C5 (amended): every identifier the first call answered from cache or from a
\* successful fetch is answered by the second call from cache, without a call
\* of the fetch function and with the same value; when that is every
\* identifier, the second call makes no fetch and returns an equal mapping.
C5_CacheIdempotence ==
    SecondCall
    => (/\ \A i \in PrevObtained :
             /\ fetch_calls[i] = 0
             /\ bpc = "returned" => results[i] = prev.results[i]
        /\ (PrevObtained = identifiers /\ bpc = "returned")
             => (/\ \A i \in Ids : fetch_calls[i] = 0
                 /\ results = prev.results))

C5_Witness ==
    /\ SecondCall
    /\ bpc = "returned"
    /\ PrevObtained = identifiers
    /\ \E i \in identifiers : prev.outcome[i] = "ok"
    /\ \E i \in identifiers : results[i] = Empty

\* C6: in one batch call the fetch function is never called for an identifier
\* that the cache lookup returned as a hit (nor for one that was not
\* requested), never more than once for any identifier, and exactly once for
\* each requested identifier that missed the cache by the time the call ends.
C6_FetchOnlyMisses ==
    /\ \A i \in Ids : (i \in cached \/ i \notin identifiers) => fetch_calls[i] = 0
    /\ \A i \in Ids : fetch_calls[i] <= 1
    /\ bpc \in {"returned", "raised"}
         => \A i \in identifiers \ cached : fetch_calls[i] = 1

C6_Witness ==
    /\ bpc = "returned"
    /\ cached # {}
    /\ identifiers \ cached # {}
    /\ \E i \in cached : cache[i] = Empty

\* C7: the mapping a batch call returns has as keys exactly the requested
\* identifiers for which a result was obtained, from cache or from a fresh
\* fetch that succeeded: no key outside the request, no key whose fetch
\* failed or gave null, no obtained identifier missing.
C7_ResultKeys ==
    bpc = "returned" => Keys(results) = Obtained

\* C8: when a fetch is still running as the batch timeout expires, the batch
\* call returns (the results of the completed fetches) instead of raising.
C8_TimeoutContained ==
    timed_out => bpc # "raised"

\* C23: when a cache-aware batch call returns (and before an entry expires),
\* every identifier it fetched in this call and returns a result for has a
\* cache entry equal to that result.
C23_CacheWriteBack ==
    (bpc = "returned" /\ UsesCache(client) /\ ~cache_changed) =>
       \A i \in identifiers \ cached :
          results[i] # Absent => cache[i] = results[i]

\* The single-item path answers from the cache without fetching: what it
\* returns and the cache it leaves do not depend on the upstream response.
AnswersFromCache(c, i) ==
    \A r1, r2 \in ResponsesOf("reactome") :
       get_pathway_participants(c, i, r1) = get_pathway_participants(c, i, r2)

\* C27: get_many reports an identifier as a hit exactly when the single-item
\* cached fetch answers it from the cache, for every stored value.
C27_HitAgreement ==
    client = "reactome" =>
       \A i \in Ids : (i \in get_many(cache, {i})) <=> AnswersFromCache(cache, i)

(***************************************************************************)
(* Claims about the pipeline                                                *)
(***************************************************************************)
\* The stage of the pipeline a provenance record of a service belongs to.
ServiceOf(stage) ==
    CASE stage = "resolve" -> "PubChem"
      [] stage = "measured" -> "ChEMBL"
      [] stage = "kg_targets" -> "Open Targets"
      [] stage = "pattern_targets" -> "Pharmacophore Analysis"
      [] stage = "docking" -> "DockingPlugin"
      [] stage = "deeppurpose" -> "DeepPurpose"
      [] stage = "ml_heuristic" -> "Open-Source ML (DeepPurpose-like)"
      [] stage = "pathway_mapping" -> "Reactome"
      [] stage = "kg_pathways" -> "Open Targets"
      [] stage = "pattern_pathways" -> "Pharmacophore Analysis"
      [] OTHER -> "ChEMBL Indications"

TargetChain ==
    {"measured", "kg_targets", "pattern_targets", "deeppurpose", "ml_heuristic"}
TargetFallbacks == TargetChain \ {"measured"}
FallbackServices == {ServiceOf(st) : st \in TargetFallbacks}

\* C1: analyze_ingredient never raises, whatever its collaborators return: no
\* analysis ends with an exception leaving the function.
C1_NeverRaises == ppc # "raised"

C3_ResolutionFailureTerminal ==
    (ppc \notin {"idle", "resolve"} /\ (~compound.found \/ ~compound.inchikey))
    => /\ ppc = "done"
       /\ final_summary = "error"
       /\ known_targets = <<>>
       /\ predicted_targets = <<>>
       /\ pathways = <<>>
       /\ Len(provenance) = 1
       /\ provenance[1].service = "PubChem"
       /\ Len(trace) = 1
       /\ trace[1].stage = "resolve"

\* A cached identity without an InChIKey ended the second analysis.
C3_Witness ==
    /\ ppc = "done"
    /\ run_no = 2
    /\ compound.found
    /\ ~compound.inchikey
    /\ provenance[1].cache_hit
    /\ final_summary = "error"

\* C9: at the end of an analysis the trail holds exactly one record per stage
\* that ran, in the order the stages ran.
C9_OneRecordPerStage ==
    ppc = "done" =>
       /\ Len(provenance) = Len(trace)
       /\ \A k \in DOMAIN provenance :
             k \in DOMAIN trace => provenance[k].service = ServiceOf(trace[k].stage)

\* C10: a collaborator of a stage after resolution that errors or times out
\* leaves a record with status "error" of that stage in the trail, and
\* nothing is raised to the caller.
C10_SourceFailureRecovery ==
    /\ ppc # "raised"
    /\ \A k \in DOMAIN trace :
          (k > 1 /\ trace[k].result = "error") =>
             \E j \in DOMAIN provenance :
                /\ provenance[j].status = "error"
                /\ provenance[j].service = ServiceOf(trace[k].stage)

PathwayIdsOf(seq) == {seq[i].pathway_id : i \in DOMAIN seq}

\* C11: the indication merge leaves every pathway present before it unchanged
\* and in place, ignores an inferred pathway whose id is already present, and
\* appends exactly the inferred pathways with a new id, in their order.
C11_IndicationMerge ==
    [][(ppc = "indications" /\ ppc' = "summary") =>
         /\ Len(pathways') >= Len(pathways)
         /\ SubSeq(pathways', 1, Len(pathways)) = pathways
         /\ \A k \in (Len(pathways) + 1)..Len(pathways') :
               pathways'[k].pathway_id \notin PathwayIdsOf(pathways)
         /\ \E o \in IndicationOutcomes :
               SubSeq(pathways', Len(pathways) + 1, Len(pathways')) =
                  SelectSeq(infer_pathways_from_indications(o),
                            LAMBDA p : p.pathway_id \notin PathwayIdsOf(pathways))]_vars

\* The indications gave R1 and R3 while R1 was already mapped by Reactome:
\* R1 kept its Reactome entry and R3 was appended.
C11_Witness ==
    /\ ppc = "summary"
    /\ \E k \in DOMAIN pathways :
          pathways[k].pathway_id = "R1" /\ pathways[k].by = "Reactome"
    /\ \E k \in DOMAIN pathways :
          pathways[k].pathway_id = "R3" /\ pathways[k].by = "ChEMBL Indications"
    /\ \A k \in DOMAIN pathways :
          pathways[k].pathway_id = "R1" => pathways[k].by = "Reactome"

\* C19: every pathway of a finished report carries the impact score and the
\* confidence tier that the scoring engine computes for that pathway from the
\* report's known and predicted targets.
C19_ScoresFromEngine ==
    ppc = "done" =>
       \A k \in DOMAIN pathways :
          \E parts \in ParticipantSets :
             LET r == calculate_pathway_impact(
                          ScoringEngine_init(potency_weight, coverage_weight),
                          pathways[k].pathway_id, known_targets,
                          predicted_targets, parts)
             IN /\ r.kind = "match"
                /\ r.match.impact_score = pathways[k].impact_score
                /\ r.match.confidence_tier = pathways[k].confidence_tier

\* C20: every known target of a finished report is measured evidence: Tier A
\* and not predicted.
C20_KnownTargetsMeasured ==
    ppc = "done" =>
       \A k \in DOMAIN known_targets :
          /\ known_targets[k].confidence_tier = "A"
          /\ ~known_targets[k].is_predicted

\* C21: the knowledge-graph pathway lookup is invoked only when the pathway
\* set is empty after pathway mapping, the structure-pattern inference only
\* when it is still empty after the lookup, and a non-empty result of either
\* becomes the pathway set.
C21_PathwayFallbackOrder ==
    [][/\ (ppc = "kg_pathways" /\ ppc' = "pattern_pathways" /\ trace' # trace) =>
             /\ pathways = <<>>
             /\ trace'[Len(trace')].stage = "kg_pathways"
             /\ trace'[Len(trace')].result = "ok" =>
                   pathways' # <<>> /\ pathways' = get_pathways_for_drug("some")
             /\ trace'[Len(trace')].result # "ok" => pathways' = <<>>
       /\ (ppc = "pattern_pathways" /\ ppc' = "indications" /\ trace' # trace) =>
             /\ pathways = <<>>
             /\ trace'[Len(trace')].stage = "pattern_pathways"
             /\ trace'[Len(trace')].result = "ok" =>
                   pathways' # <<>> /\ pathways' = analyze_compound(compound).pathways
             /\ trace'[Len(trace')].result # "ok" => pathways' = <<>>
       /\ (ppc \in {"kg_pathways", "pattern_pathways"} /\ trace' = trace) =>
             pathways' = pathways]_vars

\* Pathway mapping and the knowledge-graph lookup both ran and found nothing,
\* and the pathways of the structure-pattern inference are the pathway set.
C21_Witness ==
    /\ ppc = "indications"
    /\ \E k \in DOMAIN trace : trace[k] = Step("pathway_mapping", "empty")
    /\ \E k \in DOMAIN trace : trace[k] = Step("kg_pathways", "empty")
    /\ trace[Len(trace)] = Step("pattern_pathways", "ok")
    /\ pathways = analyze_compound(compound).pathways
    /\ pathways # <<>>

\* C22: every analysis whose compound resolved attempts the indication
\* enrichment, whatever the earlier stages gave, and after all of them.
C22_IndicationAlways ==
    (ppc \in {"done", "raised"} /\ ~resolution_failed(compound)) =>
       \E k \in DOMAIN trace :
          /\ trace[k].stage = "indications"
          /\ \A j \in DOMAIN trace : j # k => j < k

\* C24: the pathways of every returned report are in descending order of
\* impact score.
C24_PathwaysSorted ==
    ppc = "done" =>
       \A i, j \in DOMAIN pathways :
          i < j => pathways[i].impact_score >= pathways[j].impact_score

\* C26: no two pathways of a returned report share a pathway_id.
C26_UniquePathwayIds ==
    ppc = "done" =>
       \A i, j \in DOMAIN pathways :
          pathways[i].pathway_id = pathways[j].pathway_id => i = j

\* A report whose pathways come from two stages: two pathways scored by the
\* mapping stage for two targets, and a third added by the indications, which
\* also named one of the first two.
C26_Witness ==
    /\ ppc = "done"
    /\ Len(pathways) = 3
    /\ {known_targets[k].target_id : k \in DOMAIN known_targets}
       \cup {predicted_targets[k].target_id : k \in DOMAIN predicted_targets}
          = {"P1", "P2"}
    /\ pathways[3].by = "ChEMBL Indications"
    /\ pathways[1].by = "Reactome"
    /\ pathways[2].by = "Reactome"

\* The sources of the evidence stage.
EvidenceSources == {"ChEMBL", "Open Targets", "Pharmacophore Analysis"}

\* C25: in every report the record of the evidence stage (the second of the
\* trail) names the source of the report's targets that came from that stage.
C25_TrailNamesSource ==
    (ppc = "done" /\ final_summary # "error") =>
       \A k \in DOMAIN known_targets :
          known_targets[k].source \in EvidenceSources =>
             provenance[2].service = known_targets[k].source

\* C30: the pipeline writes the cache only for non-empty successful results:
\* a step of an analysis whose resolution fails leaves the cache unchanged,
\* the "compound" entry changes only to a successfully resolved compound, and
\* the "targets" entry is never written with an empty list.
C30_CacheOnlySuccess ==
    [][/\ (ppc = "resolve" /\ final_summary' = "error") => pcache' = pcache
       /\ pcache'.compound # pcache.compound => ~resolution_failed(pcache'.compound)
       /\ pcache'.targets_set => pcache'.targets # <<>>]_vars

(***************************************************************************)
(* Claims about the scoring engine                                          *)
(***************************************************************************)
MatchedIn(seq, parts) == SelectSeq(seq, LAMBDA t : t.target_id \in parts)
Valued(seq) == SelectSeq(seq, LAMBDA t : t.pchembl_value > 0)
Normalized(p) == IF p <= 50 THEN 0 ELSE IF p >= 90 THEN 1000 ELSE (p - 50) * 25

\* C12: calculate_pathway_impact returns nothing exactly when no measured and
\* no predicted target is a participant of the pathway, and otherwise returns
\* a match (it does not raise) with an impact score in [0,1], a tier, a
\* confidence score and an explanation, potency values or not.
C12_ImpactTotal ==
    s_out.method = "calculate_pathway_impact" =>
       LET r == s_out.result
           nothing == /\ MatchedIn(s_measured, s_participants) = <<>>
                      /\ MatchedIn(s_predicted, s_participants) = <<>>
       IN /\ (r.kind = "none") <=> nothing
          /\ ~nothing =>
                /\ r.kind = "match"
                /\ r.match.impact_score \in 0..1000
                /\ r.match.confidence_tier \in {"A", "B", "C"}
                /\ r.match.confidence_score \in 0..1000

Candidates == {plant_compounds[i] : i \in DOMAIN plant_compounds}
CandidateScores == {calculate_compound_priority(cm) : cm \in Candidates}
Selected == {sel_out.selected[i] : i \in DOMAIN sel_out.selected}
\* The pairs of consecutive scores, of the scores S in descending order, that
\* differ, and the largest difference between consecutive scores.
ConsecutiveScores(S) ==
    {p \in S \X S : p[1] > p[2] /\ ~\E x \in S : p[1] > x /\ x > p[2]}
LargestGapOf(pairs) ==
    IF pairs = {} THEN 0
    ELSE CHOOSE g \in {p[1] - p[2] : p \in pairs} :
            \A p \in pairs : p[1] - p[2] <= g
LargestGap == LargestGapOf(ConsecutiveScores(CandidateScores))
TopScore == CHOOSE x \in CandidateScores : \A y \in CandidateScores : y <= x
Descending(seq) ==
    LET score == [i \in DOMAIN seq |-> calculate_compound_priority(seq[i])]
    IN \A i, j \in DOMAIN seq : i < j => score[i] >= score[j]

\* C15: for two or more candidates whose largest difference between
\* consecutive scores exceeds 0.1, get_prioritized_compounds returns exactly
\* the candidates ranked above a largest gap, in descending score order.
C15_GapLaw ==
    (/\ sel_out.method = "get_prioritized_compounds"
     /\ Len(plant_compounds) >= 2)
    => LET pairs == ConsecutiveScores(CandidateScores)
           largest == LargestGapOf(pairs)
       IN largest > 100 =>
             /\ \E p \in pairs :
                   /\ p[1] - p[2] = largest
                   /\ Selected = {cm \in Candidates :
                                     calculate_compound_priority(cm) >= p[1]}
             /\ Len(sel_out.selected) = Cardinality(Selected)
             /\ Descending(sel_out.selected)

\* The candidates score 0.9, 0.85, 0.3 and 0.25 and the two above the gap of
\* 0.55 were returned, best first.
C15_Witness ==
    /\ sel_out.method = "get_prioritized_compounds"
    /\ {cm.name : cm \in Candidates} = {"lead", "second", "tagged", "baseline"}
    /\ plant_compounds[1].name = "baseline"
    /\ Len(sel_out.selected) = 2
    /\ sel_out.selected[1].name = "lead"
    /\ sel_out.selected[2].name = "second"

\* C16: when no difference between consecutive scores exceeds 0.1,
\* get_prioritized_compounds returns every candidate whose score is within
\* 0.15 of the top score and no other, at least one; with zero or one
\* candidate it returns all of them.
C16_FlatLaw ==
    sel_out.method = "get_prioritized_compounds" =>
       IF Len(plant_compounds) <= 1
       THEN sel_out.selected = plant_compounds
       ELSE LargestGap <= 100 =>
               /\ Selected = {cm \in Candidates :
                                 calculate_compound_priority(cm) >= TopScore - 150}
               /\ Len(sel_out.selected) = Cardinality(Selected)
               /\ Len(sel_out.selected) >= 1

\* The priority of the formula, in ten-thousandths: the weighted axes, 0.10
\* for a ChEMBL id, 0.05 * min(categories / 5, 1), capped at 1.0.
FormulaPriority(cm) ==
    LET sum == 3 * cm.research_level + 2 * cm.bioactivity_strength
               + 2 * cm.drug_interaction_risk + 2 * cm.health_impact_potential
               + (IF cm.chembl_id THEN 1000 ELSE 0)
               + (IF cm.lifestyle_categories < 5
                  THEN 100 * cm.lifestyle_categories ELSE 500)
    IN IF sum > 10000 THEN 10000 ELSE sum

C28_SelectionAgreement ==
    sel_out.method = "analyze_compound_selection" =>
       /\ sel_out.raised = "none"
       /\ LET prioritized == get_prioritized_compounds(plant_compounds)
          IN sel_out.selected = [i \in DOMAIN prioritized |-> prioritized[i].name]

(***************************************************************************)
(* Claims about the rate limiter                                           *)
(***************************************************************************)
\* The threads inside the `with self.lock:` block of wait().
InLock == {t \in Threads : wpc[t] \in {"locked", "sleeping", "stamp", "release"}}

\* C29 as stated: with rate > 0, any two returns from wait() are at least
\* one interval apart, and last_call never decreases.
C29_ReturnsSpaced ==
    rate > 0 =>
       /\ \A i, j \in DOMAIN returns : i < j => returns[j] - returns[i] >= interval(rate)
       /\ \A i, j \in DOMAIN stamps : i < j => stamps[i] <= stamps[j]

\* C29, as the code has it: with rate > 0 at most one thread is inside the
\* locked block of wait(), any two values the calls assign to last_call are
\* at least one interval apart, each later one the larger, and last_call is
\* the latest of them, so it never decreases.
C29_StampsSpaced ==
    rate > 0 =>
       /\ Cardinality(InLock) <= 1
       /\ \A i, j \in DOMAIN stamps : i < j => stamps[j] - stamps[i] >= interval(rate)
       /\ last_call = IF stamps = <<>> THEN 0 ELSE stamps[Len(stamps)]

\* C29 witness: two calls contended for the lock, the second slept exactly
\* to the end of the interval, and both have returned.
C29_Witness ==
    /\ rate > 0
    /\ Len(stamps) >= 2
    /\ stamps[2] - stamps[1] = interval(rate)
    /\ Len(returns) >= 2
    /\ \E t \in Threads : wake[t] > 0

====
